---- MODULE Spec2Model ----
(***************************************************************************)
(* Response cache of the DNS proxy: the cache key, the ARC-backed store,   *)
(* the reader plugin (PluginCache.Eval), the writer plugin                 *)
(* (PluginCacheResponse.Eval) and the snapshot (SaveCache / LoadCache).    *)
(*                                                                         *)
(* Time is counted in whole seconds.  A dns.Msg is a header kept by value  *)
(* plus a reference into rrHeap, where the resource records live: Go       *)
(* copies a dns.Msg struct shallowly, so the copies share their records.   *)
(***************************************************************************)
EXTENDS Integers, Sequences, FiniteSets, TLC

VARIABLES
    now,          \* time.Now(), in seconds
    phase,        \* "stopped" or "running"
    cfg,          \* the configuration of this process run
    cache,        \* cachedResponses.cache: Nil or the ARC cache
    fetchLock,    \* cachedResponses.fetchLock
    rrHeap,       \* the resource-record sets the messages point to
    req,          \* the last request: its query and its PluginsState
    file,         \* the snapshot file: Nil or [header, records]
    answered,     \* number of upstream responses seen so far
    lastOp,       \* history: the last operation and its outcome
    saved,        \* history: the Store's keys and capacity when the file was written
    lock,         \* cachedResponses.RWMutex: [readers, writer, waiting]
    thr,          \* the Evals under way on concurrent goroutines
    added         \* history: per stored key, the value the writer added last

vars == <<now, phase, cfg, cache, fetchLock, rrHeap, req, file, answered, lastOp,
          saved, lock, thr, added>>

\* The nil pointer (a record, so that it compares with records).
Nil == [nil |-> TRUE]

-----------------------------------------------------------------------------
(* Bounds of the model *)

MaxTime == 3          \* the clock stops here
MaxResponses == 2     \* upstream responses while the clock runs
MaxBurst == 3         \* upstream responses while the clock stands still

-----------------------------------------------------------------------------
(* Configuration values of the modelled runs *)

CacheMinTTL == 1
CacheMaxTTL == 2
CacheNegMinTTL == 1
CacheNegMaxTTL == 2
CacheForcedMaxTTL == 1
CacheSizes == {0, 1, 2}

-----------------------------------------------------------------------------
(* DNS constants *)

RcodeSuccess == 0
RcodeServerFailure == 2
RcodeNameError == 3
RcodeNotAuth == 9
TypeA == 1
TypeSOA == 6
TypeTXT == 16
ClassINET == 1

\* Names are sequences of ASCII codes.
NameLower == <<97>>
NameUpper == <<65>>
NameEsni == <<95, 101, 115, 110, 105, 46, 97>>
NameFlush == <<102, 108, 117, 115, 104, 92, 64, 97>>
EsniPrefix == <<95, 101, 115, 110, 105>>
FlushPrefix == <<102, 108, 117, 115, 104, 92, 64>>

Max(a, b) == IF a > b THEN a ELSE b

HasPrefix(s, p) == Len(s) >= Len(p) /\ SubSeq(s, 1, Len(p)) = p

\* NormalizeRawQName: ASCII upper-case letters are folded to lower case.
LowerByte(c) == IF c >= 65 /\ c <= 90 THEN c + 32 ELSE c
NormalizeRawQName(name) == [i \in 1..Len(name) |-> LowerByte(name[i])]

\* The 32-byte digest is modelled by its preimage (collisions are excluded):
\* qtype, qclass, the dnssec byte and the normalized name.
HashInput(qtype, qclass, dnssec, name) ==
    <<qtype, qclass, IF dnssec THEN 1 ELSE 0, NormalizeRawQName(name)>>

\* computeCacheKey(pluginsState, msg) with a request state.
computeCacheKeyState(dnssec, question) ==
    HashInput(question.qtype, question.qclass, dnssec, question.name)

\* A faulty variant of computeCacheKeyNil: the message's OPT record is not
\* looked at.
computeCacheKeyNoDO(msg) ==
    HashInput(msg.question.qtype, msg.question.qclass, FALSE, msg.question.name)

\* computeCacheKey(nil, msg): the dnssec bit is the DO bit of the message's OPT.
computeCacheKeyNil(msg) ==
    HashInput(msg.question.qtype, msg.question.qclass, msg.do, msg.question.name)

\* computeCacheKey(pluginsState, msg), pluginsState being Nil or a request
\* state with its dnssec field.
computeCacheKey(pluginsState, msg) ==
    IF pluginsState = Nil
    THEN computeCacheKeyNil(msg)
    ELSE computeCacheKeyState(pluginsState.dnssec, msg.question)

-----------------------------------------------------------------------------
(* The ARC cache (lru.ARCCache of hashicorp/golang-lru): two resident LRU    *)
(* lists t1 (recent) and t2 (frequent), two ghost lists b1 and b2, and the   *)
(* target size p of t1.  Every list is ordered oldest first, as Keys() is.   *)

SeqToSet(s) == {s[i] : i \in 1..Len(s)}
SeqRemove(s, k) == SelectSeq(s, LAMBDA x : x # k)
Restrict(f, S) == [x \in (DOMAIN f) \cap S |-> f[x]]

\* simplelru.LRU.Add: move to the newest position, or insert and drop the
\* oldest element when the list outgrows its size.
LruAdd(l, k, size) ==
    IF k \in SeqToSet(l)
    THEN Append(SeqRemove(l, k), k)
    ELSE LET grown == Append(l, k)
         IN IF Len(grown) > size THEN Tail(grown) ELSE grown

\* lru.NewARC(size): fails (no cache) unless size > 0.
NewARC(size) ==
    IF size <= 0
    THEN Nil
    ELSE [size |-> size, p |-> 0, t1 |-> <<>>, t2 |-> <<>>, b1 |-> <<>>,
          b2 |-> <<>>, vals |-> <<>>]

ARCLen(c) == Len(c.t1) + Len(c.t2)
ARCKeys(c) == c.t1 \o c.t2
ARCContains(c, k) == k \in SeqToSet(c.t1) \cup SeqToSet(c.t2)
ARCPeek(c, k) == c.vals[k]

\* Keep only the values of the resident keys.
ARCTrim(c) == [c EXCEPT !.vals = Restrict(c.vals, SeqToSet(c.t1) \cup SeqToSet(c.t2))]

\* ARCCache.replace: demote the oldest entry of t1 or of t2 to its ghost list.
ARCReplace(c, b2ContainsKey) ==
    LET t1Len == Len(c.t1)
    IN IF t1Len > 0 /\ (t1Len > c.p \/ (t1Len = c.p /\ b2ContainsKey))
       THEN [c EXCEPT !.t1 = Tail(c.t1), !.b1 = LruAdd(c.b1, Head(c.t1), c.size)]
       ELSE IF Len(c.t2) > 0
            THEN [c EXCEPT !.t2 = Tail(c.t2), !.b2 = LruAdd(c.b2, Head(c.t2), c.size)]
            ELSE c

ARCMakeRoom(c, b2ContainsKey) ==
    IF ARCLen(c) >= c.size THEN ARCReplace(c, b2ContainsKey) ELSE c

ARCPut(c, k, v) == [c EXCEPT !.vals = [x \in (DOMAIN c.vals) \cup {k} |->
                                        IF x = k THEN v ELSE c.vals[x]]]

\* ARCCache.Add
ARCAdd(c, k, v) ==
    IF k \in SeqToSet(c.t1)
    THEN ARCPut([c EXCEPT !.t1 = SeqRemove(c.t1, k),
                          !.t2 = LruAdd(c.t2, k, c.size)], k, v)
    ELSE IF k \in SeqToSet(c.t2)
    THEN ARCPut([c EXCEPT !.t2 = LruAdd(c.t2, k, c.size)], k, v)
    ELSE IF k \in SeqToSet(c.b1)
    THEN LET b1Len == Len(c.b1)
             b2Len == Len(c.b2)
             delta == IF b2Len > b1Len THEN b2Len \div b1Len ELSE 1
             c1 == [c EXCEPT !.p = IF c.p + delta >= c.size THEN c.size
                                   ELSE c.p + delta]
             c2 == ARCMakeRoom(c1, FALSE)
         IN ARCTrim(ARCPut([c2 EXCEPT !.b1 = SeqRemove(c2.b1, k),
                                      !.t2 = LruAdd(c2.t2, k, c.size)], k, v))
    ELSE IF k \in SeqToSet(c.b2)
    THEN LET b1Len == Len(c.b1)
             b2Len == Len(c.b2)
             delta == IF b1Len > b2Len THEN b1Len \div b2Len ELSE 1
             c1 == [c EXCEPT !.p = IF delta >= c.p THEN 0 ELSE c.p - delta]
             c2 == ARCMakeRoom(c1, TRUE)
         IN ARCTrim(ARCPut([c2 EXCEPT !.b2 = SeqRemove(c2.b2, k),
                                      !.t2 = LruAdd(c2.t2, k, c.size)], k, v))
    ELSE LET c1 == ARCMakeRoom(c, FALSE)
             c2 == IF Len(c1.b1) > c1.size - c1.p
                   THEN [c1 EXCEPT !.b1 = Tail(c1.b1)] ELSE c1
             c3 == IF Len(c2.b2) > c2.p
                   THEN [c2 EXCEPT !.b2 = Tail(c2.b2)] ELSE c2
         IN ARCTrim(ARCPut([c3 EXCEPT !.t1 = LruAdd(c3.t1, k, c.size)], k, v))

\* ARCCache.Get: a hit in t1 promotes the entry to t2, a hit in t2 makes it
\* the newest of t2; the value is ARCPeek(c, k) when ARCContains(c, k).
ARCGet(c, k) ==
    IF k \in SeqToSet(c.t1)
    THEN [c EXCEPT !.t1 = SeqRemove(c.t1, k), !.t2 = LruAdd(c.t2, k, c.size)]
    ELSE IF k \in SeqToSet(c.t2)
    THEN [c EXCEPT !.t2 = LruAdd(c.t2, k, c.size)]
    ELSE c

-----------------------------------------------------------------------------
(* Messages.  A dns.Msg is [id, response, rcode, tc, compress, question,   *)
(* do, rrs]: do is the DO bit of its OPT record (FALSE without one), rrs    *)
(* the reference to its resource records in rrHeap.  A resource record is   *)
(* [sec, rrtype, ttl, minttl], minttl being the MINIMUM of an SOA.          *)

RR(sec, rrtype, ttl, minttl) ==
    [sec |-> sec, rrtype |-> rrtype, ttl |-> ttl, minttl |-> minttl]

Question(name, qtype) == [name |-> name, qtype |-> qtype, qclass |-> ClassINET]

\* The queries clients send in the modelled runs: question, DO bit, id.
Queries ==
    { [question |-> Question(NameLower, TypeA), dnssec |-> FALSE, id |-> 1],
      [question |-> Question(NameUpper, TypeA), dnssec |-> FALSE, id |-> 2],
      [question |-> Question(NameEsni, TypeTXT), dnssec |-> TRUE, id |-> 1],
      [question |-> Question(NameFlush, TypeA), dnssec |-> FALSE, id |-> 2],
      [question |-> Question(NameFlush, TypeA), dnssec |-> TRUE, id |-> 1] }

\* What the zone data says about a name in the modelled runs: NXDOMAIN with
\* an SOA, two TXT records, or one A record in a response with the DO bit.
ZoneAnswer(question) ==
    IF NormalizeRawQName(question.name) = NameLower
    THEN [rcode |-> RcodeNameError, tc |-> FALSE, do |-> FALSE,
          rrs |-> <<RR("ns", TypeSOA, 4, 1)>>]
    ELSE IF question.name = NameEsni
    THEN [rcode |-> RcodeSuccess, tc |-> FALSE, do |-> FALSE,
          rrs |-> <<RR("an", TypeTXT, 3, 0), RR("an", TypeTXT, 5, 0)>>]
    ELSE [rcode |-> RcodeSuccess, tc |-> FALSE, do |-> TRUE,
          rrs |-> <<RR("an", TypeA, 1, 0)>>]

\* The responses an upstream resolver may return to a question: the answer,
\* the answer truncated, or a server failure.
Responses(question) ==
    { ZoneAnswer(question),
      [ZoneAnswer(question) EXCEPT !.tc = TRUE],
      [rcode |-> RcodeServerFailure, tc |-> FALSE, do |-> FALSE, rrs |-> <<>>] }

\* The smallest reference not in use.
NewRef(heap) ==
    CHOOSE i \in 1..(Cardinality(DOMAIN heap) + 1) :
        i \notin DOMAIN heap /\ \A j \in 1..(i - 1) : j \in DOMAIN heap

HeapPut(heap, ref, rrs) ==
    [x \in (DOMAIN heap) \cup {ref} |-> IF x = ref THEN rrs ELSE heap[x]]

Clamp(x, lo, hi) == IF x < lo THEN lo ELSE IF x > hi THEN hi ELSE x

SeqMin(s) == CHOOSE m \in SeqToSet(s) : \A x \in SeqToSet(s) : m <= x

\* getMinTTL: the admission TTL of a response.
getMinTTL(rcode, rrs, minTTL, maxTTL, negMinTTL, negMaxTTL) ==
    LET answers == SelectSeq(rrs, LAMBDA r : r.sec = "an")
        soas == SelectSeq(rrs, LAMBDA r : r.rrtype = TypeSOA)
    IN IF rcode = RcodeSuccess /\ Len(answers) > 0
       THEN Clamp(SeqMin([i \in 1..Len(answers) |-> answers[i].ttl]), minTTL, maxTTL)
       ELSE Clamp(IF Len(soas) > 0 THEN soas[1].minttl ELSE 0, negMinTTL, negMaxTTL)

\* The TTL updateTTL writes at instant t for an expiration.
RemainingTTL(expiration, t) == Max(0, expiration - t)

\* One record as updateTTL rewrites it: the TTL, and the MINIMUM of an SOA.
RewrittenRR(rr, ttl) ==
    [rr EXCEPT !.ttl = ttl,
               !.minttl = IF rr.rrtype = TypeSOA THEN ttl ELSE rr.minttl]

\* updateTTL(msg, expiration) at instant t: every record of the message gets
\* the remaining TTL.  The records are rewritten in place, so every message
\* that points to them sees the new values.
updateTTL(heap, ref, expiration, t) ==
    LET old == heap[ref]
        ttl == RemainingTTL(expiration, t)
    IN [heap EXCEPT ![ref] = [i \in 1..Len(old) |-> RewrittenRR(old[i], ttl)]]

\* msg.PackBuffer: the wire form holds the records by value; Compress is not
\* part of it.
Pack(msg, heap) ==
    [id |-> msg.id, response |-> msg.response, rcode |-> msg.rcode, tc |-> msg.tc,
     question |-> msg.question, do |-> msg.do, rrs |-> heap[msg.rrs]]

\* msg.Unpack: a new message whose records are placed at ref.
Unpack(packet, ref) ==
    [id |-> packet.id, response |-> packet.response, rcode |-> packet.rcode,
     tc |-> packet.tc, compress |-> FALSE, question |-> packet.question,
     do |-> packet.do, rrs |-> ref]

-----------------------------------------------------------------------------
(* The request: the query (question, dnssec, id) and the cache-facing       *)
(* fields of its PluginsState.  stale is sessionData["stale"].              *)

NewPluginsState(q) ==
    [question |-> q.question, dnssec |-> q.dnssec, id |-> q.id,
     forceRequest |-> FALSE, synthResponse |-> Nil, action |-> "None",
     cacheHit |-> FALSE, cachedTTL |-> 0, stale |-> Nil]

\* The configuration fields the plugins read while the process runs.
Configs == [cacheSize : CacheSizes, cacheForced : BOOLEAN]

NoFetchLock == [made |-> FALSE, keys |-> {}]
EmptyFetchLock == [made |-> TRUE, keys |-> {}]

StoreKeys(c) == IF c = Nil THEN {} ELSE SeqToSet(ARCKeys(c))

\* The history of the writer's additions: the value added under a key k, and
\* the additions whose key is still in the Store c.
NoteAdded(a, k, v) == [x \in (DOMAIN a) \cup {k} |-> IF x = k THEN v ELSE a[x]]
StillStored(a, c) == Restrict(a, StoreKeys(c))

\* The references a state still holds: the stored messages and the synthetic
\* responses of the last request.
LiveRefs(c, r) ==
    (IF c = Nil THEN {} ELSE {c.vals[k].msg.rrs : k \in DOMAIN c.vals})
    \cup (IF r = Nil THEN {}
          ELSE (IF r.synthResponse = Nil THEN {} ELSE {r.synthResponse.rrs})
               \cup (IF r.stale = Nil THEN {} ELSE {r.stale.rrs}))

Collect(heap, c, r) == Restrict(heap, LiveRefs(c, r))

\* The goroutines of the step-by-step Evals, and the lock nobody holds.
\* readers is the set of the shared holds, each named by the goroutine that
\* took it (SaverAgain names the second hold of the Saver), writer tells
\* whether the lock is held exclusively, and waiting is the set of the
\* goroutines inside Lock: while there is one, RLock admits nobody.
Threads == {1, 2}
Saver == 3
SaverAgain == 4
Idle == [pc |-> "idle"]
FreeLock == [readers |-> {}, writer |-> FALSE, waiting |-> {}]

\* RLock returns at once.
RLockFree(l) == ~l.writer /\ l.waiting = {}

\* Lock returns at once, or a goroutine waiting in it goes on.
LockFree(l) == ~l.writer /\ l.readers = {}

Init ==
    /\ now = 0
    /\ phase = "stopped"
    /\ cfg = Nil
    /\ cache = Nil
    /\ fetchLock = NoFetchLock
    /\ rrHeap = <<>>
    /\ req = Nil
    /\ file = Nil
    /\ answered = 0
    /\ lastOp = [op |-> "Init"]
    /\ saved = [keys |-> {}, cacheSize |-> 0]
    /\ lock = FreeLock
    /\ thr = [t \in Threads \cup {Saver} |-> Idle]
    /\ added = <<>>

\* The clock advances.  Instants are counted from the first admission: while
\* nothing is cached or saved no instant differs from another.
Tick ==
    /\ now < MaxTime
    /\ cache # Nil \/ file # Nil
    /\ now' = now + 1
    /\ lastOp' = [op |-> "Tick"]
    /\ UNCHANGED <<phase, cfg, cache, fetchLock, rrHeap, req, file, answered, saved,
                   lock, thr, added>>

-----------------------------------------------------------------------------
(* PluginCache.Eval, the reader *)

\* time.Now().After(cached.expiration)
Expired(t, expiration) == t > expiration

\* A faulty variant of SynthOf: the cached header is delivered as it is.
SynthOfCachedHeader(msg, r) == [msg EXCEPT !.response = TRUE, !.compress = TRUE]

\* The synthetic response: a copy of the cached message's header with the
\* request's id and question; its records are those of the cached message.
SynthOf(msg, r) ==
    [msg EXCEPT !.id = r.id, !.response = TRUE, !.compress = TRUE,
                !.question = r.question]

\* The stale branch returns without delivering.
StaleOnly(cacheForced, forceRequest) == cacheForced = FALSE \/ forceRequest

\* The request state after a delivery.
Delivered(r, synth, expiration, t) ==
    [r EXCEPT !.synthResponse = synth, !.action = "Synth", !.cacheHit = TRUE,
              !.cachedTTL = expiration - t]

\* A faulty variant of ReaderFreshHeap: the TTLs are left as they are.
ReaderFreshHeapKept(heap, cached, t) == heap

\* The records after the reader's fresh branch.
ReaderFreshHeap(heap, cached, t) ==
    updateTTL(heap, cached.msg.rrs, cached.expiration, t)

ReaderOp(outcome, r) ==
    [op |-> "ReaderEval", outcome |-> outcome, forceRequest |-> r.forceRequest]

\* Eval(pluginsState, msg) on the PluginsState r of a query.
ReaderEvalOn(r) ==
    LET cacheKey == computeCacheKeyState(r.dnssec, r.question)
    IN IF cache = Nil
       THEN /\ lastOp' = ReaderOp("nocache", r)
            /\ req' = r
            /\ rrHeap' = Collect(rrHeap, cache, req')
            /\ UNCHANGED cache
       ELSE IF ~ARCContains(cache, cacheKey)
       THEN /\ lastOp' = ReaderOp("miss", r)
            /\ req' = r
            /\ rrHeap' = Collect(rrHeap, cache, req')
            /\ UNCHANGED cache
       ELSE LET cached == ARCPeek(cache, cacheKey)
                synth == SynthOf(cached.msg, r)
            IN /\ cache' = ARCGet(cache, cacheKey)
               /\ IF Expired(now, cached.expiration)
                  THEN IF StaleOnly(cfg.cacheForced, r.forceRequest)
                       THEN /\ req' = [r EXCEPT !.stale = synth]
                            /\ rrHeap' = Collect(rrHeap, cache', req')
                            /\ lastOp' = ReaderOp("stale", r)
                       ELSE /\ req' = Delivered([r EXCEPT !.forceRequest = TRUE],
                                                synth, cached.expiration, now)
                            /\ rrHeap' = Collect(rrHeap, cache', req')
                            /\ lastOp' = ReaderOp("forced", r)
                  ELSE /\ req' = Delivered(r, synth, cached.expiration, now)
                       /\ rrHeap' = Collect(ReaderFreshHeap(rrHeap, cached, now),
                                            cache', req')
                       /\ lastOp' = ReaderOp("fresh", r)

\* The reader runs on a new query, or again on the last request.
ReaderEval ==
    /\ phase = "running"
    /\ \/ \E q \in Queries : ReaderEvalOn(NewPluginsState(q))
       \/ req # Nil /\ ReaderEvalOn(req)
    /\ added' = StillStored(added, cache')
    /\ UNCHANGED <<now, phase, cfg, fetchLock, file, answered, saved, lock, thr>>

-----------------------------------------------------------------------------
(* PluginCacheResponse.Eval, the writer *)

\* A faulty variant of Admissible: the response code is not looked at.
AdmissibleAnyRcode(rcode, tc) == ~tc

\* The responses the writer goes on to cache.
Admissible(rcode, tc) ==
    /\ rcode \in {RcodeSuccess, RcodeNameError, RcodeNotAuth}
    /\ ~tc

\* The upstream response to the request, its records at ref.
ResponseMsg(r, resp, ref) ==
    [id |-> r.id, response |-> TRUE, rcode |-> resp.rcode, tc |-> resp.tc,
     compress |-> FALSE, question |-> r.question, do |-> resp.do, rrs |-> ref]

CachedResponse(expiration, msg) == [expiration |-> expiration, msg |-> msg]

\* A faulty variant of WriterCache: a new cache whatever there is.
WriterCacheFresh(c, cacheSize) == NewARC(cacheSize)

\* The cache the writer adds to: the existing one, or a new one.
WriterCache(c, cacheSize) == IF c = Nil THEN NewARC(cacheSize) ELSE c

\* A faulty variant of WriterAdded: a key that is in the Store keeps its value.
WriterAddedIfAbsent(c, cacheKey, cachedResponse) ==
    IF ARCContains(c, cacheKey) THEN c ELSE ARCAdd(c, cacheKey, cachedResponse)

\* cachedResponses.cache.Add(cacheKey, cachedResponse)
WriterAdded(c, cacheKey, cachedResponse) == ARCAdd(c, cacheKey, cachedResponse)

\* The records after the writer's final updateTTL(msg, expiration).
WriterHeap(heap, ref, expiration, t) == updateTTL(heap, ref, expiration, t)

WriterOp(outcome) == [op |-> "WriterEval", outcome |-> outcome]

\* The query went upstream: the reader delivered nothing fresh for it.
WentUpstream(r) == r # Nil /\ ~(r.cacheHit /\ ~r.forceRequest)

\* Eval(pluginsState, msg) on an upstream response to the last request, as
\* long as fewer than maxResponses responses have arrived.
WriterEvalTo(maxResponses) ==
    /\ phase = "running"
    /\ WentUpstream(req)
    /\ answered < maxResponses
    /\ answered' = answered + 1
    /\ \E resp \in Responses(req.question) :
         LET ref == NewRef(rrHeap)
             heap1 == HeapPut(rrHeap, ref, resp.rrs)
             msg == ResponseMsg(req, resp, ref)
             cacheKey == computeCacheKeyState(req.dnssec, msg.question)
             ttl == getMinTTL(resp.rcode, resp.rrs, CacheMinTTL, CacheMaxTTL,
                              CacheNegMinTTL, CacheNegMaxTTL)
             cachedResponse == CachedResponse(now + ttl, msg)
             c0 == WriterCache(cache, cfg.cacheSize)
         IN IF ~Admissible(resp.rcode, resp.tc)
            THEN /\ lastOp' = WriterOp("skipped")
                 /\ UNCHANGED <<cache, fetchLock, req, rrHeap, added>>
            ELSE /\ req' = [req EXCEPT !.cachedTTL = ttl]
                 /\ fetchLock' = IF cache = Nil THEN EmptyFetchLock ELSE fetchLock
                 /\ IF c0 = Nil
                    THEN /\ cache' = Nil
                         /\ added' = <<>>
                         /\ rrHeap' = Collect(heap1, cache', req')
                         /\ lastOp' = WriterOp("error")
                    ELSE /\ cache' = WriterAdded(c0, cacheKey, cachedResponse)
                         /\ added' = StillStored(NoteAdded(added, cacheKey,
                                                           cachedResponse), cache')
                         /\ rrHeap' = Collect(WriterHeap(heap1, ref, now + ttl, now),
                                              cache', req')
                         /\ lastOp' = WriterOp("added")
    /\ UNCHANGED <<now, phase, cfg, file, saved, lock, thr>>

WriterEval == WriterEvalTo(MaxResponses)

WriterEvalBurst == WriterEvalTo(MaxBurst)

-----------------------------------------------------------------------------
(* The snapshot: CachedResponses.SaveCache and CachedResponses.LoadCache.   *)
(* The file is [header, records]; a record is a SavedResponse.              *)

ProtoVersion == 1

SavedResponse(cached, frequent, heap) ==
    [Expiration |-> cached.expiration, Frequent |-> frequent,
     Packet |-> Pack([cached.msg EXCEPT !.compress = TRUE], heap)]

\* The records SaveCache encodes: one per key of Keys(), in that order.
SavedRecords(c, fl, heap) ==
    LET keys == ARCKeys(c)
    IN [i \in 1..Len(keys) |->
           SavedResponse(ARCPeek(c, keys[i]), keys[i] \in fl.keys, heap)]

CacheFileHeader(c) == [ProtoVersion |-> ProtoVersion, ItemsCount |-> ARCLen(c)]

\* SaveCache writes the file only for a cache that holds something.
Saves(c) == c # Nil /\ ARCLen(c) > 0

\* SaveCache(cacheFilename): the file it leaves behind, old being the file
\* before.
SaveCache(c, fl, heap, old) ==
    IF Saves(c)
    THEN [header |-> CacheFileHeader(c), records |-> SavedRecords(c, fl, heap)]
    ELSE old

\* App.Stop: SaveCache, then the process ends and its memory is gone.  The
\* configuration stays where it is, on disk.
Stop ==
    /\ phase = "running"
    /\ phase' = "stopped"
    /\ file' = SaveCache(cache, fetchLock, rrHeap, file)
    /\ saved' = IF Saves(cache)
                THEN [keys |-> StoreKeys(cache), cacheSize |-> cfg.cacheSize]
                ELSE saved
    /\ cache' = Nil
    /\ fetchLock' = NoFetchLock
    /\ rrHeap' = <<>>
    /\ req' = Nil
    /\ lastOp' = [op |-> "Stop"]
    /\ added' = <<>>
    /\ UNCHANGED <<now, cfg, answered, lock, thr>>

\* A faulty variant of LoadRecord: the Frequent flag is not looked at.
LoadRecordOnce(st, rec, startTime, t) ==
    LET ref == NewRef(st.heap)
        heap1 == HeapPut(st.heap, ref, rec.Packet.rrs)
        msg == Unpack(rec.Packet, ref)
        cachedResponse == CachedResponse(rec.Expiration, msg)
        heap2 == IF startTime < cachedResponse.expiration
                 THEN updateTTL(heap1, ref, cachedResponse.expiration, t)
                 ELSE heap1
    IN [cache |-> ARCAdd(st.cache, computeCacheKeyNil(msg), cachedResponse),
        heap |-> heap2]

\* One turn of LoadCache's loop on st = [cache, heap].
LoadRecord(st, rec, startTime, t) ==
    LET ref == NewRef(st.heap)
        heap1 == HeapPut(st.heap, ref, rec.Packet.rrs)
        msg == Unpack(rec.Packet, ref)
        cachedResponse == CachedResponse(rec.Expiration, msg)
        heap2 == IF startTime < cachedResponse.expiration
                 THEN updateTTL(heap1, ref, cachedResponse.expiration, t)
                 ELSE heap1
        cachedKey == computeCacheKeyNil(msg)
        c1 == ARCAdd(st.cache, cachedKey, cachedResponse)
        c2 == IF rec.Frequent THEN ARCAdd(c1, cachedKey, cachedResponse) ELSE c1
    IN [cache |-> c2, heap |-> heap2]

\* A record of the file that dec.Decode or msg.Unpack rejects.
Corrupt == [corrupt |-> TRUE]

\* A faulty variant of LoadRecords: a record that cannot be read is skipped.
RECURSIVE LoadRecordsSkipping(_, _, _, _)
LoadRecordsSkipping(st, recs, startTime, t) ==
    IF recs = <<>>
    THEN [cache |-> st.cache, heap |-> st.heap, err |-> "none"]
    ELSE IF Head(recs) = Corrupt
    THEN LoadRecordsSkipping(st, Tail(recs), startTime, t)
    ELSE LoadRecordsSkipping(LoadRecord(st, Head(recs), startTime, t), Tail(recs),
                             startTime, t)

\* The loop of LoadCache on st = [cache, heap]: it ends at the end of the
\* file, or returns the error of the first record it cannot decode or unpack.
RECURSIVE LoadRecords(_, _, _, _)
LoadRecords(st, recs, startTime, t) ==
    IF recs = <<>>
    THEN [cache |-> st.cache, heap |-> st.heap, err |-> "none"]
    ELSE IF Head(recs) = Corrupt
    THEN [cache |-> st.cache, heap |-> st.heap, err |-> "corrupt"]
    ELSE LoadRecords(LoadRecord(st, Head(recs), startTime, t), Tail(recs), startTime, t)

\* A faulty variant of VersionSupported: any version is taken.
VersionSupportedAny(header) == TRUE

\* The header check of LoadCache.
VersionSupported(header) == header.ProtoVersion = 1

\* LoadCache(cacheFilename, cacheSize) at instant t:
\* [cache, fetchLock, heap, err, locked, unlocks], locked telling whether Lock
\* was called and unlocks how many times Unlock was.  When NewARC fails the
\* lock is released at once and a second time by the deferred Unlock.
LoadCache(c, fl, heap, f, cacheSize, t) ==
    IF f = Nil
    THEN [cache |-> c, fetchLock |-> fl, heap |-> heap, err |-> "open",
          locked |-> FALSE, unlocks |-> 0]
    ELSE IF ~VersionSupported(f.header)
    THEN [cache |-> c, fetchLock |-> fl, heap |-> heap, err |-> "version",
          locked |-> FALSE, unlocks |-> 0]
    ELSE IF f.header.ItemsCount > 0
    THEN LET c0 == IF c = Nil THEN NewARC(cacheSize) ELSE c
             fl0 == IF c = Nil THEN EmptyFetchLock ELSE fl
         IN IF c0 = Nil
            THEN [cache |-> Nil, fetchLock |-> fl0, heap |-> heap, err |-> "size",
                  locked |-> TRUE, unlocks |-> 2]
            ELSE LET st == LoadRecords([cache |-> c0, heap |-> heap], f.records, t, t)
                 IN [cache |-> st.cache, fetchLock |-> fl0, heap |-> st.heap,
                     err |-> st.err, locked |-> TRUE, unlocks |-> 1]
    ELSE [cache |-> c, fetchLock |-> fl, heap |-> heap, err |-> "none",
          locked |-> FALSE, unlocks |-> 0]

\* PluginCacheResponse.Init after LoadCache returned r: it returns nil
\* whatever the error.  Unlocking the mutex a second time is a fatal error of
\* the runtime: the process ends.
Loads(r) ==
    IF r.unlocks > 1
    THEN /\ phase' = "stopped"
         /\ cache' = Nil
         /\ fetchLock' = NoFetchLock
         /\ rrHeap' = <<>>
         /\ lastOp' = [op |-> "LoadCache", err |-> r.err, locked |-> r.locked,
                       unlocks |-> r.unlocks, init |-> "fatal"]
    ELSE /\ phase' = "running"
         /\ cache' = r.cache
         /\ fetchLock' = r.fetchLock
         /\ rrHeap' = Collect(r.heap, r.cache, Nil)
         /\ lastOp' = [op |-> "LoadCache", err |-> r.err, locked |-> r.locked,
                       unlocks |-> r.unlocks, init |-> "nil"]

\* The process starts with its configuration and an empty cachedResponses;
\* PluginCacheResponse.Init loads the snapshot when proxy.cachePersistent.
Start ==
    /\ phase = "stopped"
    /\ \E c \in Configs, cachePersistent \in BOOLEAN :
         /\ cfg' = c
         /\ IF cachePersistent
            THEN Loads(LoadCache(Nil, NoFetchLock, <<>>, file, c.cacheSize, now))
            ELSE /\ phase' = "running"
                 /\ cache' = Nil
                 /\ fetchLock' = NoFetchLock
                 /\ rrHeap' = <<>>
                 /\ lastOp' = [op |-> "Start"]
    /\ added' = <<>>
    /\ UNCHANGED <<now, req, file, answered, saved, lock, thr>>

\* The prefetcher marks a stored key in the fetch-dedup map while it resolves
\* the key's question upstream.
Fetch ==
    /\ phase = "running"
    /\ fetchLock.made
    /\ \E k \in StoreKeys(cache) \ fetchLock.keys :
         fetchLock' = [fetchLock EXCEPT !.keys = @ \cup {k}]
    /\ lastOp' = [op |-> "Fetch"]
    /\ UNCHANGED <<now, phase, cfg, cache, rrHeap, req, file, answered, saved,
                   lock, thr, added>>

\* The snapshot file is another one than SaveCache wrote: its header names
\* another version, or one of its records is damaged.
FileDamage ==
    /\ phase = "stopped"
    /\ file # Nil
    /\ VersionSupported(file.header)
    /\ \A i \in 1..Len(file.records) : file.records[i] # Corrupt
    /\ \/ file' = [file EXCEPT !.header.ProtoVersion = ProtoVersion + 1]
       \/ \E i \in 1..Len(file.records) :
             file' = [file EXCEPT !.records[i] = Corrupt]
    /\ lastOp' = [op |-> "FileDamage"]
    /\ UNCHANGED <<now, phase, cfg, cache, fetchLock, rrHeap, req, answered, saved,
                   lock, thr, added>>

-----------------------------------------------------------------------------
(* The two Evals step by step, on concurrent goroutines.  The reader holds   *)
(* the RWMutex shared from its lookup to its return; the writer holds it     *)
(* exclusively around Add only, and calls updateTTL after Unlock.  The       *)
(* ARCCache serializes its own operations.  updateTTL takes the time once    *)
(* and then stores into one record after the other.                          *)

\* A goroutine inside updateTTL on the records at ref.
Updating(kind, ref, expiration, t) ==
    [pc |-> "updating", kind |-> kind, ref |-> ref,
     ttl |-> RemainingTTL(expiration, t), idx |-> 1]

\* PluginCache.Eval to RLock.
ReaderRLock(t) ==
    /\ phase = "running"
    /\ thr[t] = Idle
    /\ RLockFree(lock)
    /\ lock' = [lock EXCEPT !.readers = @ \cup {t}]
    /\ \E q \in Queries :
         thr' = [thr EXCEPT ![t] = [pc |-> "rlocked", r |-> NewPluginsState(q)]]
    /\ UNCHANGED <<now, phase, cfg, cache, fetchLock, rrHeap, req, file, answered,
                   lastOp, saved, added>>

\* PluginCache.Eval from the nil check to the freshness branch.
ReaderLookup(t) ==
    /\ thr[t].pc = "rlocked"
    /\ LET r == thr[t].r
           cacheKey == computeCacheKeyState(r.dnssec, r.question)
           returns == /\ thr' = [thr EXCEPT ![t] = Idle]
                      /\ lock' = [lock EXCEPT !.readers = @ \ {t}]
       IN IF cache = Nil \/ ~ARCContains(cache, cacheKey)
          THEN returns /\ UNCHANGED cache
          ELSE LET cached == ARCPeek(cache, cacheKey)
               IN /\ cache' = ARCGet(cache, cacheKey)
                  /\ IF Expired(now, cached.expiration)
                     THEN IF StaleOnly(cfg.cacheForced, r.forceRequest)
                          THEN returns
                          ELSE /\ thr' = [thr EXCEPT ![t] = [pc |-> "publish"]]
                               /\ UNCHANGED lock
                     ELSE /\ thr' = [thr EXCEPT ![t] =
                                        Updating("reader", cached.msg.rrs,
                                                 cached.expiration, now)]
                          /\ UNCHANGED lock
    /\ added' = StillStored(added, cache')
    /\ UNCHANGED <<now, phase, cfg, fetchLock, rrHeap, req, file, answered, lastOp,
                   saved>>

\* updateTTL: the store into the next record.
Rewrite(t) ==
    /\ thr[t].pc = "updating"
    /\ LET ref == thr[t].ref
           i == thr[t].idx
       IN /\ rrHeap' = [rrHeap EXCEPT ![ref][i] = RewrittenRR(@, thr[t].ttl)]
          /\ thr' = [thr EXCEPT ![t] =
                        IF i < Len(rrHeap[ref]) THEN [@ EXCEPT !.idx = i + 1]
                        ELSE IF thr[t].kind = "reader" THEN [pc |-> "publish"]
                        ELSE Idle]
    /\ UNCHANGED <<now, phase, cfg, cache, fetchLock, req, file, answered, lastOp,
                   saved, lock, added>>

\* PluginCache.Eval from the publication of the response to its return.
ReaderReturn(t) ==
    /\ thr[t].pc = "publish"
    /\ thr' = [thr EXCEPT ![t] = Idle]
    /\ lock' = [lock EXCEPT !.readers = @ \ {t}]
    /\ UNCHANGED <<now, phase, cfg, cache, fetchLock, rrHeap, req, file, answered,
                   lastOp, saved, added>>

\* PluginCacheResponse.Eval on an admissible response, from the return of
\* Lock to Unlock and into updateTTL; when NewARC fails, to its return.
WriterAdds(t, maxResponses) ==
    /\ phase = "running"
    /\ answered < maxResponses
    /\ answered' = answered + 1
    /\ \E q \in Queries :
         LET resp == ZoneAnswer(q.question)
             ref == NewRef(rrHeap)
             msg == ResponseMsg(NewPluginsState(q), resp, ref)
             cacheKey == computeCacheKeyState(q.dnssec, msg.question)
             ttl == getMinTTL(resp.rcode, resp.rrs, CacheMinTTL, CacheMaxTTL,
                              CacheNegMinTTL, CacheNegMaxTTL)
             c0 == WriterCache(cache, cfg.cacheSize)
         IN /\ Admissible(resp.rcode, resp.tc)
            /\ fetchLock' = IF cache = Nil THEN EmptyFetchLock ELSE fetchLock
            /\ IF c0 = Nil
               THEN /\ cache' = Nil
                    /\ thr' = [thr EXCEPT ![t] = Idle]
                    /\ UNCHANGED <<rrHeap, added>>
               ELSE /\ cache' = WriterAdded(c0, cacheKey,
                                            CachedResponse(now + ttl, msg))
                    /\ added' = StillStored(NoteAdded(added, cacheKey,
                                             CachedResponse(now + ttl, msg)), cache')
                    /\ rrHeap' = HeapPut(rrHeap, ref, resp.rrs)
                    /\ thr' = [thr EXCEPT ![t] =
                                  Updating("writer", ref, now + ttl, now)]
    /\ UNCHANGED <<now, phase, cfg, req, file, lastOp, saved>>

\* The same from the call of Lock, where nobody holds the lock.
WriterAddTo(t, maxResponses) ==
    /\ thr[t] = Idle
    /\ lock = FreeLock
    /\ WriterAdds(t, maxResponses)
    /\ UNCHANGED lock

\* PluginCacheResponse.Eval on an admissible response, to the call of Lock.
WriterLock(t) ==
    /\ phase = "running"
    /\ thr[t] = Idle
    /\ answered + Cardinality({x \in lock.waiting : thr[x].pc = "lock"}) < MaxResponses
    /\ thr' = [thr EXCEPT ![t] = [pc |-> "lock"]]
    /\ lock' = [lock EXCEPT !.waiting = @ \cup {t}]
    /\ UNCHANGED <<now, phase, cfg, cache, fetchLock, rrHeap, req, file, answered,
                   lastOp, saved, added>>

\* Lock returns, and the Eval goes on to Unlock and into updateTTL.
WriterLocked(t) ==
    /\ thr[t].pc = "lock"
    /\ LockFree(lock)
    /\ WriterAdds(t, MaxResponses)
    /\ lock' = [lock EXCEPT !.waiting = @ \ {t}]

WriterAdd(t) == WriterAddTo(t, MaxResponses)

\* The process is gone: its memory, its goroutines and its lock.
ProcessEnds ==
    /\ phase' = "stopped"
    /\ cache' = Nil
    /\ fetchLock' = NoFetchLock
    /\ rrHeap' = <<>>
    /\ req' = Nil
    /\ added' = <<>>
    /\ lock' = FreeLock
    /\ thr' = [t \in Threads \cup {Saver} |-> Idle]

\* LoadCache on a goroutine of the running process, to the call of Lock: the
\* file is there, its version is supported and it announces records.
LoadLock(t) ==
    /\ phase = "running"
    /\ thr[t] = Idle
    /\ file # Nil
    /\ VersionSupported(file.header)
    /\ file.header.ItemsCount > 0
    /\ thr' = [thr EXCEPT ![t] = [pc |-> "loadlock"]]
    /\ lock' = [lock EXCEPT !.waiting = @ \cup {t}]
    /\ UNCHANGED <<now, phase, cfg, cache, fetchLock, rrHeap, req, file, answered,
                   lastOp, saved, added>>

\* The records the goroutines inside updateTTL point to.
HeldRefs == {thr[x].ref : x \in {y \in Threads : thr[y].pc = "updating"}}

\* LoadCache has returned r on goroutine t: the lock is released, or the
\* second Unlock has ended the process.
LoadReturns(t, r) ==
    /\ lastOp' = [op |-> "LoadCache", err |-> r.err, locked |-> r.locked,
                  unlocks |-> r.unlocks,
                  init |-> IF r.unlocks > 1 THEN "fatal" ELSE "nil"]
    /\ IF r.unlocks > 1
       THEN ProcessEnds
       ELSE /\ cache' = r.cache
            /\ fetchLock' = r.fetchLock
            /\ rrHeap' = Restrict(r.heap, LiveRefs(r.cache, Nil) \cup HeldRefs)
            /\ thr' = [thr EXCEPT ![t] = Idle]
            /\ lock' = [lock EXCEPT !.waiting = @ \ {t}]
            /\ added' = StillStored(added, r.cache)
            /\ UNCHANGED <<phase, req>>

\* Lock returns, and LoadCache goes on to its return.
LoadLocked(t) ==
    /\ thr[t].pc = "loadlock"
    /\ LockFree(lock)
    /\ LoadReturns(t, LoadCache(cache, fetchLock, rrHeap, file, cfg.cacheSize, now))
    /\ UNCHANGED <<now, cfg, file, answered, saved>>

WriterAddBurst(t) == WriterAddTo(t, MaxBurst)

-----------------------------------------------------------------------------------------------------------------------------------------------------
(* SaveCache step by step, on the goroutine of App.Stop, while the Evals of  *)
(* the query workers go on.  It takes the RWMutex shared at its first line,  *)
(* a second time before it encodes the header, and releases both holds when *)
(* it returns.                                                               *)

\* SaveCache has returned to App.Stop.
Returned(err) == [pc |-> "returned", err |-> err]

\* SaveCache from its first RLock to the header literal, whose ItemsCount is
\* cache.Len() as the literal reads it; with no cache to save, to its return.
SaveBegin ==
    /\ phase = "running"
    /\ thr[Saver] = Idle
    /\ RLockFree(lock)
    /\ IF Saves(cache)
       THEN /\ lock' = [lock EXCEPT !.readers = @ \cup {Saver}]
            /\ thr' = [thr EXCEPT ![Saver] =
                          [pc |-> "rlock", header |-> CacheFileHeader(cache)]]
            /\ UNCHANGED lastOp
       ELSE /\ thr' = [thr EXCEPT ![Saver] = Returned(FALSE)]
            /\ lastOp' = [op |-> "SaveCache", outcome |-> "nothing"]
            /\ UNCHANGED lock
    /\ UNCHANGED <<now, phase, cfg, cache, fetchLock, rrHeap, req, file, answered,
                   saved, added>>

\* The second RLock of SaveCache, taken while it holds the first.
SaveRLock ==
    /\ thr[Saver].pc = "rlock"
    /\ RLockFree(lock)
    /\ lock' = [lock EXCEPT !.readers = @ \cup {SaverAgain}]
    /\ thr' = [thr EXCEPT ![Saver] = [pc |-> "keys", header |-> @.header]]
    /\ UNCHANGED <<now, phase, cfg, cache, fetchLock, rrHeap, req, file, answered,
                   lastOp, saved, added>>

\* The header is encoded; keys := cachedResponses.cache.Keys()
SaveKeys ==
    /\ thr[Saver].pc = "keys"
    /\ thr' = [thr EXCEPT ![Saver] = [pc |-> "records", header |-> @.header,
                                      keys |-> ARCKeys(cache), records |-> <<>>]]
    /\ UNCHANGED <<now, phase, cfg, cache, fetchLock, rrHeap, req, file, answered,
                   lastOp, saved, lock, added>>

\* A faulty variant of SaveLookup: the entry is read with Get.
SaveLookupGet(c, cacheKey) == ARCGet(c, cacheKey)

\* The cache after cachedResponses.cache.Peek(cacheKey): Peek moves nothing.
SaveLookup(c, cacheKey) == c

\* One turn of SaveCache's loop.  Peek of a key that has left the Store
\* gives nil and the type assertion on it panics: the deferred Flush writes
\* what was encoded so far and the process ends.
SaveRecord ==
    /\ thr[Saver].pc = "records"
    /\ thr[Saver].keys # <<>>
    /\ LET cacheKey == Head(thr[Saver].keys)
       IN IF ARCContains(cache, cacheKey)
          THEN /\ cache' = SaveLookup(cache, cacheKey)
               /\ thr' = [thr EXCEPT ![Saver] =
                             [@ EXCEPT !.keys = Tail(@),
                                       !.records = Append(@,
                                           SavedResponse(ARCPeek(cache, cacheKey),
                                                         cacheKey \in fetchLock.keys,
                                                         rrHeap))]]
               /\ added' = StillStored(added, cache')
               /\ UNCHANGED <<phase, fetchLock, rrHeap, req, file, lastOp, saved,
                              lock>>
          ELSE /\ file' = [header |-> thr[Saver].header,
                           records |-> thr[Saver].records]
               /\ lastOp' = [op |-> "SaveCache", outcome |-> "panic"]
               /\ saved' = [keys |-> SeqToSet(thr[Saver].keys),
                            cacheSize |-> cfg.cacheSize]
               /\ ProcessEnds
    /\ UNCHANGED <<now, cfg, answered>>

\* SaveCache returns nil after the last key: the file is flushed and closed
\* and both shared holds are released.
SaveEnd ==
    /\ thr[Saver].pc = "records"
    /\ thr[Saver].keys = <<>>
    /\ file' = [header |-> thr[Saver].header, records |-> thr[Saver].records]
    /\ lastOp' = [op |-> "SaveCache", outcome |-> "saved"]
    /\ saved' = [keys |-> StoreKeys(cache), cacheSize |-> cfg.cacheSize]
    /\ thr' = [thr EXCEPT ![Saver] = Returned(FALSE)]
    /\ lock' = [lock EXCEPT !.readers = @ \ {Saver, SaverAgain}]
    /\ UNCHANGED <<now, phase, cfg, cache, fetchLock, rrHeap, req, answered, added>>

\* A write to the file fails, os.Create having given no file: SaveCache
\* returns the error of Encode or of the deferred Flush, and both shared
\* holds are released.
SaveFails ==
    /\ thr[Saver].pc \in {"keys", "records"}
    /\ lastOp' = [op |-> "SaveCache", outcome |-> "error"]
    /\ thr' = [thr EXCEPT ![Saver] = Returned(TRUE)]
    /\ lock' = [lock EXCEPT !.readers = @ \ {Saver, SaverAgain}]
    /\ UNCHANGED <<now, phase, cfg, cache, fetchLock, rrHeap, req, file, answered,
                   saved, added>>

\* App.Stop after SaveCache: it logs and returns, or dlog.Fatal exits; the
\* process ends.
StopEnds ==
    /\ thr[Saver].pc = "returned"
    /\ ProcessEnds
    /\ lastOp' = [op |-> "Stop"]
    /\ UNCHANGED <<now, cfg, file, answered, saved>>

-----
(* computeCacheKey on its own: req holds two calls, each a request state    *)
(* (or Nil) and a message, and lastOp the two keys.                         *)

ClassCHAOS == 3
NameOther == <<98>>

\* The messages and the request states computeCacheKey is called with.
KeyMsgs ==
    [id : {1, 2},
     question : [name : {NameLower, NameUpper, NameOther},
                 qtype : {TypeA, TypeTXT},
                 qclass : {ClassINET, ClassCHAOS}],
     do : BOOLEAN]
KeyStates == {Nil, [dnssec |-> FALSE], [dnssec |-> TRUE]}
KeyCalls == [pluginsState : KeyStates, msg : KeyMsgs]

InitKey ==
    /\ now = 0
    /\ phase = "stopped"
    /\ cfg = Nil
    /\ cache = Nil
    /\ fetchLock = NoFetchLock
    /\ rrHeap = <<>>
    /\ req \in [a : KeyCalls, b : KeyCalls]
    /\ file = Nil
    /\ answered = 0
    /\ lastOp = [op |-> "Init"]
    /\ saved = [keys |-> {}, cacheSize |-> 0]
    /\ lock = FreeLock
    /\ thr = [t \in Threads \cup {Saver} |-> Idle]
    /\ added = <<>>

\* The two calls are made.
ComputeKeys ==
    /\ lastOp.op = "Init"
    /\ req # Nil
    /\ "a" \in DOMAIN req
    /\ lastOp' = [op |-> "computeCacheKey",
                  a |-> computeCacheKey(req.a.pluginsState, req.a.msg),
                  b |-> computeCacheKey(req.b.pluginsState, req.b.msg)]
    /\ UNCHANGED <<now, phase, cfg, cache, fetchLock, rrHeap, req, file, answered,
                   saved, lock, thr, added>>

NextKey == ComputeKeys

SpecKey == InitKey /\ [][NextKey]_vars

Next ==
    \/ Tick
    \/ Start
    \/ ReaderEval
    \/ WriterEval
    \/ Stop

\* Process runs with shutdowns and restarts between them.
Spec == Init /\ [][Next]_vars

\* One process run that is never shut down: only the writer fills the Store.
NextQuery ==
    \/ Tick
    \/ Start
    \/ ReaderEval
    \/ WriterEval

SpecQuery == Init /\ [][NextQuery]_vars

\* Process runs, shutdowns and restarts within one second.
NextRestart ==
    \/ Start
    \/ ReaderEval
    \/ WriterEvalBurst
    \/ Stop

SpecRestart == Init /\ [][NextRestart]_vars

\* Process runs, shutdowns and restarts within one second, with the
\* prefetcher at work and with snapshot files from elsewhere.
NextSnapshot ==
    \/ Start
    \/ ReaderEval
    \/ WriterEval
    \/ Fetch
    \/ Stop
    \/ FileDamage

SpecSnapshot == Init /\ [][NextSnapshot]_vars

\* One process run with its Evals on concurrent goroutines.
NextRace ==
    \/ Tick
    \/ Start
    \/ \E t \in Threads :
          \/ ReaderRLock(t)
          \/ ReaderLookup(t)
          \/ Rewrite(t)
          \/ ReaderReturn(t)
          \/ WriterAdd(t)

SpecRace == Init /\ [][NextRace]_vars

\* The process starts where no snapshot has been written yet.
FirstStart == file = Nil /\ Start

\* One process run, from its start to the SaveCache of its shutdown, with one
\* query worker, within one second.
NextSave ==
    \/ FirstStart
    \/ ReaderRLock(1)
    \/ ReaderLookup(1)
    \/ Rewrite(1)
    \/ ReaderReturn(1)
    \/ WriterAddBurst(1)
    \/ SaveBegin
    \/ SaveRLock
    \/ SaveKeys
    \/ SaveRecord
    \/ SaveEnd
    \/ SaveFails
    \/ StopEnds

SpecSave == Init /\ [][NextSave]_vars

\* One process run that is never shut down, with bursts of upstream responses
\* and the clock running.
NextStale ==
    \/ Tick
    \/ Start
    \/ ReaderEval
    \/ WriterEvalBurst

SpecStale == Init /\ [][NextStale]_vars

\* One process run with a query worker whose writer Evals wait in Lock, from
\* its start to the SaveCache of its shutdown, within one second.
NextContention ==
    \/ FirstStart
    \/ WriterLock(1)
    \/ WriterLocked(1)
    \/ Rewrite(1)
    \/ SaveBegin
    \/ SaveRLock
    \/ SaveKeys
    \/ SaveRecord
    \/ SaveEnd
    \/ SaveFails
    \/ StopEnds

\* App.Stop with no Eval and no LoadCache under way.
QuietStop == (\A t \in Threads : thr[t] = Idle) /\ Stop

\* Process runs, shutdowns and restarts within one second, with writer Evals
\* and LoadCache on concurrent goroutines of the running process.
NextConstruct ==
    \/ Start
    \/ WriterLock(1)
    \/ WriterLocked(1)
    \/ Rewrite(1)
    \/ LoadLock(2)
    \/ LoadLocked(2)
    \/ Fetch
    \/ QuietStop

SpecConstruct == Init /\ [][NextConstruct]_vars

\* The steps SaveCache takes on its own once it has begun.
SaveGoesOn == SaveRLock \/ SaveKeys \/ SaveRecord \/ SaveEnd

\* The scheduler lets every goroutine that can take a step take it: SaveCache
\* goes on when no lock stops it, and so does the writer.
SpecContention ==
    /\ Init
    /\ [][NextContention]_vars
    /\ WF_vars(SaveGoesOn)
    /\ WF_vars(WriterLocked(1))
    /\ WF_vars(Rewrite(1))

-----------------------------------------------------------------------------
(* Properties.  lastOp tells which handler ran last; a reader Eval leaves    *)
(* its request in req and changes neither the clock nor the Store's values, *)
(* so the entry it looked up is still the one under the request's key.      *)

ReaderRan == lastOp.op = "ReaderEval"

\* The key of the last request, and the entry the Store holds under it.
ReqKey == computeCacheKeyState(req.dnssec, req.question)
ReqHit == ReaderRan /\ cache # Nil /\ ARCContains(cache, ReqKey)
ReqEntry == ARCPeek(cache, ReqKey)

\* The reader found the entry of its request before its expiration.
FreshLookup == ReqHit /\ now < ReqEntry.expiration

\* The reader found the entry of its request after its expiration.
StaleLookup == ReqHit /\ now > ReqEntry.expiration

\* The records of the synthetic response the request carries.
DeliveredRRs == rrHeap[req.synthResponse.rrs]

\* C1: a reader Eval for a question whose entry is in the Store and has not
\* expired (t <= now < t + D) publishes a synthetic response: action = Synth,
\* cacheHit = true, cachedTTL = expiration - now, and the response carries the
\* request's transaction id and question section.
C1_FreshHit ==
    FreshLookup =>
        /\ req.synthResponse # Nil
        /\ req.action = "Synth"
        /\ req.cacheHit
        /\ req.cachedTTL = ReqEntry.expiration - now
        /\ req.synthResponse.response
        /\ req.synthResponse.id = req.id
        /\ req.synthResponse.question = req.question

\* A fresh hit on an entry admitted for another spelling of the name and
\* another transaction id.
C1_Witness ==
    /\ FreshLookup
    /\ req.action = "Synth"
    /\ ReqEntry.msg.id # req.id
    /\ ReqEntry.msg.question # req.question

\* C2: on a fresh hit at instant now, every resource record of the delivered
\* synthetic response has the TTL expiration - now, whatever TTLs the
\* admission and earlier lookups wrote into the shared records.
C2_FreshTTL ==
    FreshLookup =>
        /\ req.synthResponse # Nil
        /\ \A i \in 1..Len(DeliveredRRs) :
               DeliveredRRs[i].ttl = ReqEntry.expiration - now

\* A fresh hit one second after the admission of the two TXT records (upstream
\* TTLs 3 and 5, admitted with TTL 2): both are delivered with TTL 1.
C2_Witness ==
    /\ FreshLookup
    /\ req.question.name = NameEsni
    /\ now > 0
    /\ ReqEntry.expiration - now = 1
    /\ Len(DeliveredRRs) = 2
    /\ \A i \in 1..2 : DeliveredRRs[i].ttl = 1

\* C3: a reader Eval that hits an expired entry delivers a synthetic response
\* only if cacheForced is enabled, forceRequest was false on entry, and, with
\* a positive cacheForcedMaxTTL, now - expiration <= cacheForcedMaxTTL.
C3_StaleGating ==
    (StaleLookup /\ lastOp.outcome = "forced") =>
        /\ cfg.cacheForced
        /\ ~lastOp.forceRequest
        /\ CacheForcedMaxTTL > 0 =>
               now - ReqEntry.expiration <= CacheForcedMaxTTL

\* C4: no entry of the Store holds a truncated response or a response whose
\* RCODE is not NOERROR, NXDOMAIN or NOTAUTH, whether the writer or LoadCache
\* inserted it.
C4_AdmissionFilter ==
    \A k \in StoreKeys(cache) :
        /\ ~cache.vals[k].msg.tc
        /\ cache.vals[k].msg.rcode \in {RcodeSuccess, RcodeNameError, RcodeNotAuth}

\* LoadCache has filled the Store from a snapshot, an NXDOMAIN response
\* among its entries.
C4_Witness ==
    /\ lastOp.op = "LoadCache"
    /\ \E k \in StoreKeys(cache) : cache.vals[k].msg.rcode = RcodeNameError

C6_SnapshotRoundTrip ==
    ( /\ lastOp.op = "LoadCache"
      /\ lastOp.err = "none"
      /\ file # Nil
      /\ cfg.cacheSize = saved.cacheSize
      /\ \A i \in 1..Len(file.records) : now < file.records[i].Expiration )
    => StoreKeys(cache) = saved.keys

\* The name a flush query asks to flush: the qname without its prefix.
FlushTarget(question) ==
    [question EXCEPT !.name = SubSeq(question.name, Len(FlushPrefix) + 1,
                                     Len(question.name))]

\* C7: when the writer Eval processes an admissible response whose qname
\* begins with flush\@, it sets action = Flush and afterwards the Store holds
\* no entry under the prefixed name and none under the stripped name.
C7_Flush ==
    ( /\ lastOp.op = "WriterEval"
      /\ lastOp.outcome = "added"
      /\ HasPrefix(req.question.name, FlushPrefix) )
    => /\ req.action = "Flush"
       /\ ReqKey \notin StoreKeys(cache)
       /\ computeCacheKeyState(req.dnssec, FlushTarget(req.question))
              \notin StoreKeys(cache)

\* C8: a reader Eval for a qname beginning with _esni that hits an expired
\* entry delivers nothing: the response is only stashed as stale and
\* forceRequest stays as it was.
C8_EsniNeverForced ==
    (StaleLookup /\ HasPrefix(req.question.name, EsniPrefix)) =>
        /\ lastOp.outcome = "stale"
        /\ req.stale # Nil
        /\ req.forceRequest = lastOp.forceRequest

\* C9: when the reader delivers an expired entry under forced-cache, the
\* request ends with forceRequest = true, cacheHit = true, cachedTTL <= 0 and
\* every resource record of the delivered response has TTL 0.
C9_ForcedStaleDelivery ==
    (StaleLookup /\ lastOp.outcome = "forced") =>
        /\ req.forceRequest
        /\ req.cacheHit
        /\ req.cachedTTL <= 0
        /\ \A i \in 1..Len(DeliveredRRs) : DeliveredRRs[i].ttl = 0

\* The records of the message stored under key k.
StoredRRs(c, heap, k) == heap[c.vals[k].msg.rrs]

\* No step changes the resource records of a message that is in the Store
\* and stays there.
StoredMessagesKept ==
    \A k \in StoreKeys(cache) \cap StoreKeys(cache') :
        cache'.vals[k] = cache.vals[k] =>
            StoredRRs(cache', rrHeap', k) = StoredRRs(cache, rrHeap, k)

\* No two goroutines are inside updateTTL on the same records.
NoConcurrentRewrite ==
    \A a, b \in Threads :
        (a # b /\ thr[a].pc = "updating" /\ thr[b].pc = "updating") =>
            thr[a].ref # thr[b].ref

\* C10: once an entry is in the Store no step of a reader Eval or of a writer
\* Eval modifies its stored message, resource-record TTLs included, and so
\* no two Evals ever write the same stored records concurrently.
C10_NoMutationAfterInsertion == [][StoredMessagesKept /\ NoConcurrentRewrite']_vars

-----------------------------------------------------------------------------
(* The snapshot read back *)

\* PluginCacheResponse.Init has just called LoadCache on the file.
Loaded == lastOp.op = "LoadCache" /\ file # Nil

\* The key LoadCache computes for a record of the file.
RecomputedKey(rec) == computeCacheKeyNil(rec.Packet)

\* Every recomputed key of the file occurs once.
RecomputedOnce ==
    \A i, j \in 1..Len(file.records) :
        RecomputedKey(file.records[i]) = RecomputedKey(file.records[j]) => i = j

\* LoadCache went through the whole file.
LoadedAll ==
    /\ Loaded
    /\ lastOp.err = "none"
    /\ lastOp.locked
    /\ \A i \in 1..Len(file.records) : file.records[i] # Corrupt

\* C11: after LoadCache of a snapshot in which every recomputed key occurs
\* once, a record saved with frequent = true that is in the Store is in the
\* frequency list T2, one saved with frequent = false is in the recency list
\* T1, and all records are in the Store when the capacity has room for them.
C11_FrequentRehydration ==
    (LoadedAll /\ RecomputedOnce) =>
        \A i \in 1..Len(file.records) :
            LET rec == file.records[i]
                k == RecomputedKey(rec)
            IN /\ Len(file.records) <= cfg.cacheSize => k \in StoreKeys(cache)
               /\ k \in StoreKeys(cache) =>
                      IF rec.Frequent THEN k \in SeqToSet(cache.t2)
                      ELSE k \in SeqToSet(cache.t1)

\* A snapshot of two records, one of them frequent, read back into a Store
\* of capacity 2: both are there, the frequent one in T2, the other in T1.
C11_Witness ==
    /\ LoadedAll
    /\ RecomputedOnce
    /\ Len(file.records) = 2
    /\ cfg.cacheSize = 2
    /\ \E i, j \in 1..2 :
          /\ file.records[i].Frequent
          /\ ~file.records[j].Frequent
          /\ RecomputedKey(file.records[i]) \in SeqToSet(cache.t2)
          /\ RecomputedKey(file.records[j]) \in SeqToSet(cache.t1)

\* C12: when the header's proto_version is not 1, LoadCache returns an error
\* without taking the lock and without constructing or modifying the Store
\* or the fetch-dedup map, and PluginCacheResponse.Init returns success: the
\* process runs with an empty cache.
C12_UnsupportedVersion ==
    (Loaded /\ file.header.ProtoVersion # 1) =>
        /\ lastOp.err = "version"
        /\ ~lastOp.locked
        /\ cache = Nil
        /\ fetchLock = NoFetchLock
        /\ lastOp.init = "nil"
        /\ phase = "running"

\* A snapshot with records and with another version has been refused.
C12_Witness ==
    /\ Loaded
    /\ file.header.ProtoVersion = 2
    /\ file.header.ItemsCount > 0
    /\ lastOp.err = "version"
    /\ phase = "running"

\* The first record of the file that cannot be read is the k-th, and
\* LoadCache, its Store constructed, gets as far as reading it.
CorruptAt(k) ==
    /\ Loaded
    /\ file.header.ProtoVersion = 1
    /\ file.header.ItemsCount > 0
    /\ cfg.cacheSize > 0
    /\ k \in 1..Len(file.records)
    /\ file.records[k] = Corrupt
    /\ \A i \in 1..(k - 1) : file.records[i] # Corrupt

\* The expirations of the records 1..n of the file with the recomputed key k.
ExpirationsUnder(k, n) ==
    {file.records[i].Expiration :
        i \in {j \in 1..n : RecomputedKey(file.records[j]) = k}}

\* C13: when the k-th record of the payload cannot be decoded or unpacked,
\* LoadCache returns an error with the lock released once, the Store holds
\* entries of the records 1..k-1 only, all of them when the capacity has
\* room, and PluginCacheResponse.Init returns success.
C13_CorruptPartialLoad ==
    \A k \in 1..MaxBurst :
        CorruptAt(k) =>
            /\ lastOp.err = "corrupt"
            /\ lastOp.locked
            /\ lastOp.unlocks = 1
            /\ lastOp.init = "nil"
            /\ phase = "running"
            /\ cache # Nil
            /\ \A key \in StoreKeys(cache) :
                   cache.vals[key].expiration \in ExpirationsUnder(key, k - 1)
            /\ k - 1 <= cfg.cacheSize =>
                   \A i \in 1..(k - 1) :
                       RecomputedKey(file.records[i]) \in StoreKeys(cache)

\* The second record of a snapshot was damaged: the Store holds the first.
C13_Witness ==
    /\ CorruptAt(2)
    /\ lastOp.err = "corrupt"
    /\ StoreKeys(cache) = {RecomputedKey(file.records[1])}

\* C14: for every request and every configuration, a non-positive cacheSize
\* included, the reader Eval and the writer Eval return no error.
C14_NoEvalError ==
    lastOp.op \in {"ReaderEval", "WriterEval"} => lastOp.outcome # "error"

\* C15: under any interleaving of concurrent writer and reader Evals, as
\* long as a key the writer added is in the Store, the value the Store holds
\* under it, which is what a reader's lookup gets, is the value added last
\* under that key: never an older one, and the key is never missing.
C15_ReadYourWrites ==
    \A k \in DOMAIN added :
        /\ cache # Nil
        /\ ARCContains(cache, k)
        /\ ARCPeek(cache, k) = added[k]

\* Two responses were added under one key, and a reader that looked the key
\* up afterwards holds the records of the second.
C15_Witness ==
    /\ cache # Nil
    /\ cache.size = 2
    /\ Cardinality(DOMAIN rrHeap) = 2
    /\ \E k \in DOMAIN added :
          /\ StoreKeys(cache) = {k}
          /\ added[k].msg.rrs = 2
          /\ \E t \in Threads :
                /\ thr[t].pc = "updating"
                /\ thr[t].kind = "reader"
                /\ thr[t].ref = 2

\* The DNSSEC bit of a call: the request state's dnssec field, or without a
\* request state the DO bit of the message's OPT record.
DnssecBit(call) ==
    IF call.pluginsState = Nil THEN call.msg.do ELSE call.pluginsState.dnssec

\* The name with its ASCII upper-case letters folded, written out.
Folded(name) ==
    [i \in 1..Len(name) |->
        IF name[i] \in 65..90 THEN name[i] + 32 ELSE name[i]]

C17_RefreshClearsForceRequest ==
    (lastOp.op = "WriterEval" /\ lastOp.outcome = "added") => ~req.forceRequest

\* C18: every entry LoadCache put into the Store expires after the instant
\* the load started, or cacheForced is configured and its expiration plus
\* cacheForcedMaxTTL is after that instant.
C18_LoadAdmissionFilter ==
    LoadedAll =>
        \A k \in StoreKeys(cache) :
            \/ cache.vals[k].expiration > now
            \/ cfg.cacheForced /\ cache.vals[k].expiration + CacheForcedMaxTTL > now

\* The first record of the file with the recomputed key k.
FirstUnder(k) ==
    file.records[CHOOSE i \in 1..Len(file.records) :
                    /\ RecomputedKey(file.records[i]) = k
                    /\ \A j \in 1..(i - 1) : RecomputedKey(file.records[j]) # k]

\* C19: LoadCache adds a record only when its recomputed key is not in the
\* Store: while nothing is evicted, the entry under a key is the one of the
\* first record with that key, value and expiration.
C19_LoadNeverReplaces ==
    (LoadedAll /\ Len(file.records) <= cfg.cacheSize) =>
        \A k \in StoreKeys(cache) :
            /\ cache.vals[k].expiration = FirstUnder(k).Expiration
            /\ cache.vals[k].msg.id = FirstUnder(k).Packet.id
            /\ cache.vals[k].msg.question = FirstUnder(k).Packet.question

-----------------------------------------------------------------------------
(* The reader's stale branch *)

\* The request states a reader Eval may start from: that of a new query, or
\* the last request's.
EntryStates ==
    {NewPluginsState(q) : q \in Queries} \cup (IF req = Nil THEN {} ELSE {req})

\* The step is a reader Eval that took the stale branch and returned.
StaleReturn == lastOp'.op = "ReaderEval" /\ lastOp'.outcome = "stale"

\* The stale branch changes sessionData["stale"] only, of the request state.
StaleRequestFrame ==
    StaleReturn =>
        /\ req'.stale # Nil
        /\ \E r \in EntryStates : req' = [r EXCEPT !.stale = req'.stale]

\* The stale branch leaves the Store's key set as it was.
StaleKeysFrame == StaleReturn => StoreKeys(cache') = StoreKeys(cache)

BoundaryLookup == ReqHit /\ now >= ReqEntry.expiration

\* C22: a reader Eval that hits an entry at an instant now >= expiration, the
\* instant now = expiration included, takes the stale branch and does not
\* deliver the entry as a fresh hit; only now < expiration is fresh.
C22_FreshnessBoundary == BoundaryLookup => lastOp.outcome # "fresh"

-----------------------------------------------------------------------------
(* SaveCache and the lock *)

\* The step is one of SaveCache, from its first RLock to its return with nil
\* or with an error.
SaveCacheStep ==
    /\ thr'[Saver] # thr[Saver]
    /\ thr[Saver].pc # "returned"
    /\ phase' = "running"

\* The step leaves the Store and the fetch-dedup map as they were: the
\* resident keys in their lists and in their order, their values, the records
\* of their messages, and the map.
StoreKept ==
    /\ cache # Nil => /\ cache' # Nil
                      /\ cache'.t1 = cache.t1
                      /\ cache'.t2 = cache.t2
                      /\ \A k \in StoreKeys(cache) :
                             /\ cache'.vals[k] = cache.vals[k]
                             /\ StoredRRs(cache', rrHeap', k) = StoredRRs(cache, rrHeap, k)
    /\ cache = Nil => cache' = Nil
    /\ fetchLock' = fetchLock

\* C23: SaveCache leaves the Store's key set, its values, the membership of
\* the keys in T1 and T2, their recency order and the fetch-dedup map
\* unchanged, whether it returns nil or an error.
C23_SaveReadOnly == [][SaveCacheStep => StoreKept]_vars

\* SaveCache has returned nil after writing two records, from a Store with
\* an entry in T1 and one in T2 that are still where they were.
C23_Witness ==
    /\ thr[Saver] = Returned(FALSE)
    /\ lastOp = [op |-> "SaveCache", outcome |-> "saved"]
    /\ Len(file.records) = 2
    /\ Len(cache.t1) = 1
    /\ Len(cache.t2) = 1
    /\ ARCKeys(cache) = <<RecomputedKey(file.records[1]), RecomputedKey(file.records[2])>>

\* SaveCache is between its first RLock and its return.
SaveRunning == thr[Saver].pc \in {"rlock", "keys", "records"}

\* C24: SaveCache always returns: when a writer Eval requests the exclusive
\* lock while SaveCache runs, under a lock whose waiting writer stops new
\* shared acquisitions, SaveCache still comes to its end.
C24_SaveTerminates == SaveRunning ~> ~SaveRunning

\* The shared holds the goroutines have taken and not yet released: a reader
\* Eval holds one from RLock to its return, SaveCache one from its first
\* RLock and a second from its second RLock, both to its return.
SharedHolds ==
    {t \in Threads : \/ thr[t].pc \in {"rlocked", "publish"}
                     \/ thr[t].pc = "updating" /\ thr[t].kind = "reader"}
    \cup (IF thr[Saver].pc \in {"rlock", "keys", "records"} THEN {Saver} ELSE {})
    \cup (IF thr[Saver].pc \in {"keys", "records"} THEN {SaverAgain} ELSE {})

\* The lock is held by those inside an operation and by nobody who returned.
HeldByThoseInside == lock.readers = SharedHolds /\ ~lock.writer

\* LoadCache released the exclusive lock once if it took it, and never else.
LoadCacheBalanced ==
    lastOp.op = "LoadCache" => lastOp.unlocks = (IF lastOp.locked THEN 1 ELSE 0)

\* C25: on every path of LoadCache, SaveCache, the reader Eval and the
\* writer Eval, the path where NewARC fails for a non-positive capacity
\* included, each acquisition of the lock is released exactly once: the lock
\* is free when the operation returns, and no operation releases the
\* exclusive lock when it does not hold it.
C25_LockBalance == HeldByThoseInside /\ LoadCacheBalanced

-----------------------------------------------------------------------------
(* The construction of the Store *)

\* The step is one of a running process that has a Store.
StoreExists == phase = "running" /\ phase' = "running" /\ cache # Nil

\* The Store is still the one it was: it is there with its capacity, and a
\* key has left it only if it is full.
SameStore ==
    /\ cache' # Nil
    /\ cache'.size = cache.size
    /\ ~(StoreKeys(cache) \subseteq StoreKeys(cache')) => ARCLen(cache') >= cache.size

\* The fetch-dedup map is still the one it was.
SameFetchLock == fetchLock'.made /\ fetchLock.keys \subseteq fetchLock'.keys

\* C26: under any interleaving of concurrent writer Evals and LoadCache the
\* Store is constructed at most once: once it exists no later operation
\* replaces it with a new one or resets the fetch-dedup map, and an entry
\* leaves it through an eviction of the ARC only.
C26_SingleConstruction == [][StoreExists => (SameStore /\ SameFetchLock)]_vars

\* LoadCache has run on the Store a writer Eval constructed: the Store of
\* capacity 2 holds the writer's entry and the one of the file, and the map
\* its marked key.
C26_Witness ==
    /\ lastOp.op = "LoadCache"
    /\ lastOp.err = "none"
    /\ lastOp.locked
    /\ cfg.cacheSize = 2
    /\ Len(file.records) = 1
    /\ fetchLock.keys # {}
    /\ RecomputedKey(file.records[1]) \in StoreKeys(cache)
    /\ \E k \in DOMAIN added : k # RecomputedKey(file.records[1])

====
